---- MODULE Spec2Model ----
(***************************************************************************)
(* Model of the two persistence modules of the repository:                 *)
(*   src/Database.py  - Flask application over the tables subject_slots    *)
(*                      and goals (one row per occupied slot);             *)
(*   src/database.py  - library over the table subject_entries             *)
(*                      (name -> value), the snapshot stored as one JSON   *)
(*                      text under the key "subjects", plus the module     *)
(*                      global `subjects`.                                 *)
(* A process loads one of the two modules; `module` says which.            *)
(*                                                                         *)
(* Strings whose characters matter (the three fields of a slot) are        *)
(* sequences of one-character strings; names, goals and messages are TLA+  *)
(* strings.  The storage engine fails only where the arguments make a      *)
(* statement fail (a NULL in a NOT NULL column, a duplicate key).          *)
(* `last` records the last call: its arguments, the exception it raised,   *)
(* what it returned, and what became of its transaction and connection;    *)
(* `snapshot_saved` records that save_subjects_snapshot has returned once. *)
(***************************************************************************)
EXTENDS Integers, Sequences, FiniteSets, TLC

VARIABLES module, schema, subject_slots, goals, subject_entries, subjects, last,
          snapshot_saved

vars ==
    <<module, schema, subject_slots, goals, subject_entries, subjects, last,
      snapshot_saved>>

SLOT_COUNT == 5

SUBJECTS_KEY == "subjects"

\* Inputs occupy slot SLOT_COUNT - 1 and the slots below MaxLow.
MaxLow == 1

\* Bulk writes carry at most MaxBulk entries.
MaxBulk == 2

ActiveSlots == {i \in 0..(SLOT_COUNT - 1) : i < MaxLow \/ i = SLOT_COUNT - 1}

-----------------------------------------------------------------------------
(* Python values *)

\* dict.get(key, "") finds no key.
Missing == <<"(missing)">>

\* A JSON value: null, number, string, bool, array (n: its value or length)
\* or an object (n: its number of keys; the three fields, Missing when absent).
Scalar(t, n) ==
    [t |-> t, n |-> n, subject |-> Missing, current |-> Missing, target |-> Missing]

Object(n, s, c, g) ==
    [t |-> "object", n |-> n, subject |-> s, current |-> c, target |-> g]

None == Scalar("null", 0)

EmptyObj == Object(0, Missing, Missing, Missing)

\* {"subject": " a ", "current": "b"}
ObjA == Object(2, <<" ", "a", " ">>, <<"b">>, Missing)

\* {"note": ...}: an object with none of the three fields
ObjB == Object(1, Missing, Missing, Missing)

Zero == Scalar("number", 0)

Seven == Scalar("number", 7)

\* what an element below the last slot is drawn from
LowPool == {None, ObjA, Seven}

\* what the element of the last slot is drawn from
ElemPool == LowPool \cup {EmptyObj, Zero}

\* bool(item)
Truthy(v) == v.n # 0

\* isinstance(item, dict)
IsDict(v) == v.t = "object"

\* item.get(field, "")
Get(item, f) == IF item[f] = Missing THEN <<>> ELSE item[f]

IsSpace(c) == c = " "

RECURSIVE lstrip(_)
lstrip(s) == IF s # <<>> /\ IsSpace(Head(s)) THEN lstrip(Tail(s)) ELSE s

RECURSIVE rstrip(_)
rstrip(s) ==
    IF s # <<>> /\ IsSpace(s[Len(s)]) THEN rstrip(SubSeq(s, 1, Len(s) - 1)) ELSE s

\* str.strip()
strip(s) == rstrip(lstrip(s))

\* str(index)
StrOf(i) == <<"0", "1", "2", "3", "4", "5", "6", "7", "8", "9">>[i + 1]

-----------------------------------------------------------------------------
(* Arguments, results and the record of the last call *)

NoText == [kind |-> "none", raw |-> "", pairs |-> <<>>]

NoArg == [kind |-> "none", items |-> <<>>, text |-> "", value |-> NoText, pairs |-> <<>>]

ListArg(items) == [NoArg EXCEPT !.kind = "list", !.items = items]

\* a payload that is no JSON array (resp. no JSON object with the key asked for)
OtherArg == [NoArg EXCEPT !.kind = "other"]

NoRet == [kind |-> "none", subjects |-> <<>>, text |-> "", entries |-> {}]

NoCall ==
    [op |-> "none", arg |-> NoArg, exc |-> "none", status |-> 0, ret |-> NoRet,
     tx |-> "none", conn |-> "none"]

\* Sequences of length n, null outside the active slots.
SnapshotsOfLen(n) ==
    {[i \in 1..n |-> IF (i - 1) \in ActiveSlots THEN f[i - 1] ELSE None] :
        f \in {g \in [ActiveSlots -> ElemPool] :
                    \A i \in ActiveSlots : i < SLOT_COUNT - 1 => g[i] \in LowPool}}

WrongLengthInputs ==
    {[i \in 1..n |-> IF i = 1 THEN e ELSE None] :
        n \in {SLOT_COUNT - 1, SLOT_COUNT + 1}, e \in {None, ObjA, Seven}}

ListInputs == SnapshotsOfLen(SLOT_COUNT) \cup WrongLengthInputs

GoalPool == {"", "x", "y"}

-----------------------------------------------------------------------------
(* src/Database.py *)

Row(slot, item) ==
    [slot |-> slot, subject |-> Get(item, "subject"),
     current |-> Get(item, "current"), target |-> Get(item, "target")]

\* `with connection:` of sqlite3: commit when the body ended without an
\* exception, roll back and re-raise otherwise; the connection is not closed.
Slots_connection_exit(committed, working, exc) ==
    [db |-> IF exc = "none" THEN working ELSE committed,
     tx |-> IF exc = "none" THEN "commit" ELSE "rollback",
     exc |-> exc]

\* The loop of _save_subjects from index i - 1 on, in the open transaction.
RECURSIVE Slots_insert_loop(_, _, _)
Slots_insert_loop(rows, items, i) ==
    IF i > Len(items) THEN [rows |-> rows, exc |-> "none"]
    ELSE IF ~Truthy(items[i]) THEN Slots_insert_loop(rows, items, i + 1)
    ELSE IF ~IsDict(items[i]) THEN [rows |-> rows, exc |-> "AttributeError"]
    ELSE IF \E r \in rows : r.slot = i - 1
         THEN [rows |-> rows, exc |-> "IntegrityError"]
    ELSE Slots_insert_loop(rows \cup {Row(i - 1, items[i])}, items, i + 1)

\* _save_subjects on the committed rows: the rows committed afterwards, the
\* exception raised, and what became of the transaction.
_save_subjects(rows, items) ==
    IF Len(items) # SLOT_COUNT
    THEN [db |-> rows, tx |-> "none", exc |-> "ValueError"]
    ELSE LET body == Slots_insert_loop({}, items, 1)
         IN  Slots_connection_exit(rows, body.rows, body.exc)

\* _load_subjects: SLOT_COUNT entries, a dict where a row has the slot.
_load_subjects(rows) ==
    [i \in 1..SLOT_COUNT |->
        IF \E r \in rows : r.slot = i - 1
        THEN LET r == CHOOSE r \in rows : r.slot = i - 1
             IN  Object(3, r.subject, r.current, r.target)
        ELSE None]

\* The insert with the conflict ignored: an existing row keeps its goal.
Slots_insert_goal_or_ignore(rows, goal) ==
    IF \E r \in rows : r.id = 1 THEN rows ELSE rows \cup {[id |-> 1, goal |-> goal]}

\* INSERT INTO goals (id, goal) VALUES (1, ?) ON CONFLICT(id) DO UPDATE
Slots_upsert_goal(rows, goal) ==
    {r \in rows : r.id # 1} \cup {[id |-> 1, goal |-> goal]}

\* save_goal: goal is a string, or null (kind "null"), which the column refuses.
save_goal(rows, arg) ==
    IF arg.kind = "null"
    THEN Slots_connection_exit(rows, rows, "IntegrityError")
    ELSE Slots_connection_exit(rows, Slots_upsert_goal(rows, arg.text), "none")

load_goal(rows) ==
    IF \E r \in rows : r.id = 1 THEN (CHOOSE r \in rows : r.id = 1).goal ELSE ""

\* The connection of a Database.py call after it: never closed by the code.
\* After a return the runtime may already have finalized it (gc); after an
\* exception the traceback keeps it.
Slots_conn(exc, gc) == IF exc = "none" /\ gc THEN "closed" ELSE "open"

\* init_db (also the first statement of every store function)
Slots_init_db ==
    /\ module = "Database.py"
    /\ \E gc \in BOOLEAN :
        last' = [NoCall EXCEPT !.op = "init_db", !.tx = "commit",
                               !.conn = Slots_conn("none", gc)]
    /\ schema' = TRUE
    /\ UNCHANGED <<module, subject_slots, goals, subject_entries, subjects, snapshot_saved>>

\* GET /api/subjects
get_subjects ==
    /\ module = "Database.py"
    /\ \E gc \in BOOLEAN :
        last' = [NoCall EXCEPT !.op = "get_subjects", !.status = 200,
                    !.ret = [NoRet EXCEPT !.kind = "subjects",
                                          !.subjects = _load_subjects(subject_slots)],
                    !.tx = "commit", !.conn = Slots_conn("none", gc)]
    /\ schema' = TRUE
    /\ UNCHANGED <<module, subject_slots, goals, subject_entries, subjects, snapshot_saved>>

\* POST /api/subjects
set_subjects(arg) ==
    /\ module = "Database.py"
    /\ IF arg.kind # "list"
       THEN /\ last' = [NoCall EXCEPT !.op = "set_subjects", !.arg = arg,
                           !.status = 400,
                           !.ret = [NoRet EXCEPT !.kind = "error",
                                                 !.text = "Payload must be a list."]]
            /\ UNCHANGED <<schema, subject_slots>>
       ELSE LET r == _save_subjects(subject_slots, arg.items)
            IN  /\ subject_slots' = r.db
                /\ schema' = TRUE
                /\ \E gc \in BOOLEAN :
                    last' = [NoCall EXCEPT !.op = "set_subjects", !.arg = arg,
                        !.exc = r.exc, !.tx = r.tx,
                        !.conn = Slots_conn(IF r.tx = "none" THEN "none" ELSE r.exc, gc),
                        !.status = CASE r.exc = "none" -> 200
                                     [] r.exc = "ValueError" -> 400
                                     [] OTHER -> 500,
                        !.ret = CASE r.exc = "none" -> [NoRet EXCEPT !.kind = "ok"]
                                  [] r.exc = "ValueError" ->
                                        [NoRet EXCEPT !.kind = "error",
                                                      !.text = "Expected 5 slots"]
                                  [] OTHER -> NoRet]
    /\ UNCHANGED <<module, goals, subject_entries, subjects, snapshot_saved>>

\* GET /api/goal
get_goal ==
    /\ module = "Database.py"
    /\ \E gc \in BOOLEAN :
        last' = [NoCall EXCEPT !.op = "get_goal", !.status = 200,
                    !.ret = [NoRet EXCEPT !.kind = "goal", !.text = load_goal(goals)],
                    !.tx = "commit", !.conn = Slots_conn("none", gc)]
    /\ schema' = TRUE
    /\ UNCHANGED <<module, subject_slots, goals, subject_entries, subjects, snapshot_saved>>

GoalArgs ==
    {[NoArg EXCEPT !.kind = "goal", !.text = g] : g \in GoalPool}
        \cup {[NoArg EXCEPT !.kind = "null"], OtherArg}

\* POST /api/goal
set_goal(arg) ==
    /\ module = "Database.py"
    /\ IF arg.kind = "other"
       THEN /\ last' = [NoCall EXCEPT !.op = "set_goal", !.arg = arg, !.status = 400,
                           !.ret = [NoRet EXCEPT !.kind = "error",
                               !.text = "Payload must be a dict with 'goal' key."]]
            /\ UNCHANGED <<schema, goals>>
       ELSE LET r == save_goal(goals, arg)
            IN  /\ goals' = r.db
                /\ schema' = TRUE
                /\ \E gc \in BOOLEAN :
                    last' = [NoCall EXCEPT !.op = "set_goal", !.arg = arg,
                        !.exc = r.exc, !.tx = r.tx, !.conn = Slots_conn(r.exc, gc),
                        !.status = IF r.exc = "none" THEN 200 ELSE 500,
                        !.ret = IF r.exc = "none" THEN [NoRet EXCEPT !.kind = "ok"]
                                ELSE NoRet]
    /\ UNCHANGED <<module, subject_slots, subject_entries, subjects, snapshot_saved>>

-----------------------------------------------------------------------------
(* src/database.py *)

\* A value of the column `value`: a Python str, classified by what json.loads
\* makes of it, or None (kind "null").  A serialized mapping carries its
\* key/value pairs in the order they were written.
Text(kind, raw) == [kind |-> kind, raw |-> raw, pairs |-> <<>>]

PlainV == Text("undecodable", "v")

EmptyText == Text("empty", "")

ArrayText == Text("array", "[1]")

\* brackets nested deeper than the interpreter's recursion limit
DeepText == Text("too_deep", "[[[[")

NoneValue == Text("null", "")

\* {"0": {"subject": " a ", "current": "b"}, "4": 0, "9": {"note": ...}}
ObjectText ==
    [kind |-> "object", raw |-> "",
     pairs |-> <<[k |-> "0", v |-> ObjA], [k |-> "4", v |-> Zero],
                 [k |-> "9", v |-> ObjB]>>]

BlobPool == {PlainV, EmptyText, ArrayText, DeepText, ObjectText}

EntryArg(name, value) == [NoArg EXCEPT !.kind = "entry", !.text = name, !.value = value]

EntryInputs ==
    {EntryArg("", PlainV), EntryArg("k", PlainV), EntryArg("k", ArrayText),
     EntryArg("k", NoneValue)}
        \cup {EntryArg(SUBJECTS_KEY, x) : x \in BlobPool}

BulkEntries ==
    {[k |-> "k", v |-> PlainV], [k |-> "k", v |-> NoneValue],
     [k |-> SUBJECTS_KEY, v |-> ArrayText]}

\* dicts of at most MaxBulk entries, in insertion order
BulkInputs ==
    UNION {{p \in [1..n -> BulkEntries] :
                \A i, j \in 1..n : i # j => p[i].k # p[j].k} : n \in 0..MaxBulk}

BulkArg(pairs) == [NoArg EXCEPT !.kind = "bulk", !.pairs = pairs]

\* d[key] = value on a dict held as a set of key/value records
DictSet(d, key, value) == {e \in d : e.k # key} \cup {[k |-> key, v |-> value]}

HasKey(d, key) == \E e \in d : e.k = key

DictGet(d, key) == (CHOOSE e \in d : e.k = key).v

\* {"subject": str(v.get("subject", "")).strip(), ...}
Normalized(item) ==
    Object(3, strip(Get(item, "subject")), strip(Get(item, "current")),
           strip(Get(item, "target")))

\* json.dumps of a dict with keys str(index), in insertion order
RECURSIVE dumps_pairs(_, _)
dumps_pairs(d, i) ==
    IF i > 9 THEN <<>>
    ELSE (IF HasKey(d, StrOf(i)) THEN <<[k |-> StrOf(i), v |-> DictGet(d, StrOf(i))]>>
          ELSE <<>>) \o dumps_pairs(d, i + 1)

json_dumps(d) == [kind |-> "object", raw |-> "", pairs |-> dumps_pairs(d, 0)]

RECURSIVE dict_of(_, _, _)
dict_of(d, pairs, i) ==
    IF i > Len(pairs) THEN d
    ELSE dict_of(DictSet(d, pairs[i].k, pairs[i].v), pairs, i + 1)

\* json.loads: the exception raised, whether the value is a dict, the dict
json_loads(text) ==
    CASE text.kind = "object" ->
            [exc |-> "none", isdict |-> TRUE, dict |-> dict_of({}, text.pairs, 1)]
      [] text.kind = "array" -> [exc |-> "none", isdict |-> FALSE, dict |-> {}]
      [] text.kind = "too_deep" -> [exc |-> "RecursionError", isdict |-> FALSE, dict |-> {}]
      [] OTHER -> [exc |-> "JSONDecodeError", isdict |-> FALSE, dict |-> {}]

\* _get_connection: commit after the body, roll back and re-raise on any
\* exception, close in every case.
KV_get_connection(committed, working, exc) ==
    [db |-> IF exc = "none" THEN working ELSE committed,
     tx |-> IF exc = "none" THEN "commit" ELSE "rollback",
     exc |-> exc, conn |-> "closed"]

\* The insert with the conflict ignored: an existing name keeps its value.
KV_insert_or_ignore(rows, name, value) ==
    IF \E r \in rows : r.name = name THEN rows
    ELSE rows \cup {[name |-> name, value |-> value]}

\* INSERT ... ON CONFLICT(name) DO UPDATE SET value = excluded.value
KV_upsert(rows, name, value) ==
    {r \in rows : r.name # name} \cup {[name |-> name, value |-> value]}

\* executemany over the entries from the i-th on, in the open transaction
RECURSIVE KV_executemany(_, _, _)
KV_executemany(rows, pairs, i) ==
    IF i > Len(pairs) THEN [rows |-> rows, exc |-> "none"]
    ELSE IF pairs[i].v.kind = "null" THEN [rows |-> rows, exc |-> "IntegrityError"]
    ELSE KV_executemany(KV_upsert(rows, pairs[i].k, pairs[i].v), pairs, i + 1)

no_connection(rows, exc) == [db |-> rows, tx |-> "none", exc |-> exc, conn |-> "none"]

\* save_subjects(subject_data)
save_subjects_fn(rows, arg) ==
    IF arg.kind # "bulk" THEN no_connection(rows, "TypeError")
    ELSE LET body == KV_executemany(rows, arg.pairs, 1)
         IN  KV_get_connection(rows, body.rows, body.exc)

\* save_subject(name, value)
save_subject_fn(rows, name, value) ==
    IF name = "" THEN no_connection(rows, "ValueError")
    ELSE LET body == KV_executemany(rows, <<[k |-> name, v |-> value]>>, 1)
         IN  KV_get_connection(rows, body.rows, body.exc)

\* load_subjects: {name: value for name, value in rows}
load_subjects_fn(rows) == rows

\* the loop of _normalize_subject_payload from index i - 1 on
RECURSIVE normalize_loop(_, _, _)
normalize_loop(d, items, i) ==
    IF i > Len(items) THEN [dict |-> d, exc |-> "none"]
    ELSE IF ~Truthy(items[i]) THEN normalize_loop(d, items, i + 1)
    ELSE IF ~IsDict(items[i]) THEN [dict |-> d, exc |-> "TypeError"]
    ELSE normalize_loop(DictSet(d, StrOf(i - 1), Normalized(items[i])), items, i + 1)

_normalize_subject_payload(arg) ==
    IF arg.kind # "list" THEN [dict |-> {}, exc |-> "TypeError"]
    ELSE IF Len(arg.items) # SLOT_COUNT THEN [dict |-> {}, exc |-> "ValueError"]
    ELSE normalize_loop({}, arg.items, 1)

\* [subjects.get(str(i)) for i in range(slot_count)]
SlotList(d) ==
    [i \in 1..SLOT_COUNT |->
        IF HasKey(d, StrOf(i - 1)) THEN DictGet(d, StrOf(i - 1)) ELSE None]

\* the dict load_subjects_snapshot builds from the decoded value
KeptEntries(stored) ==
    {[k |-> e.k, v |-> Normalized(e.v)] : e \in {x \in stored : IsDict(x.v)}}

\* load_subjects_snapshot on the rows: the global `subjects` afterwards, the
\* exception raised and the list returned.
load_subjects_snapshot_fn(rows) ==
    IF ~(\E r \in rows : r.name = SUBJECTS_KEY)
    THEN [subjects |-> {}, exc |-> "none", ret |-> SlotList({})]
    ELSE LET text == (CHOOSE r \in rows : r.name = SUBJECTS_KEY).value
             loaded == json_loads(text)
         IN  IF text.kind = "empty"
             THEN [subjects |-> {}, exc |-> "none", ret |-> SlotList({})]
             ELSE IF loaded.exc \notin {"none", "JSONDecodeError"}
             THEN [subjects |-> {}, exc |-> loaded.exc, ret |-> <<>>]
             ELSE IF loaded.exc = "JSONDecodeError" \/ ~loaded.isdict
             THEN [subjects |-> {}, exc |-> "none", ret |-> SlotList({})]
             ELSE [subjects |-> KeptEntries(loaded.dict), exc |-> "none",
                   ret |-> SlotList(KeptEntries(loaded.dict))]

KV_init_db ==
    /\ module = "database.py"
    /\ last' = [NoCall EXCEPT !.op = "init_db", !.tx = "commit", !.conn = "closed"]
    /\ schema' = TRUE
    /\ UNCHANGED <<module, subject_slots, goals, subject_entries, subjects, snapshot_saved>>

save_subjects(arg) ==
    /\ module = "database.py"
    /\ LET r == save_subjects_fn(subject_entries, arg)
       IN  /\ subject_entries' = r.db
           /\ schema' = (schema \/ r.conn # "none")
           /\ last' = [NoCall EXCEPT !.op = "save_subjects", !.arg = arg,
                           !.exc = r.exc, !.tx = r.tx, !.conn = r.conn]
    /\ UNCHANGED <<module, subject_slots, goals, subjects, snapshot_saved>>

save_subject(arg) ==
    /\ module = "database.py"
    /\ LET r == save_subject_fn(subject_entries, arg.text, arg.value)
       IN  /\ subject_entries' = r.db
           /\ schema' = (schema \/ r.conn # "none")
           /\ last' = [NoCall EXCEPT !.op = "save_subject", !.arg = arg,
                           !.exc = r.exc, !.tx = r.tx, !.conn = r.conn]
    /\ UNCHANGED <<module, subject_slots, goals, subjects, snapshot_saved>>

load_subjects ==
    /\ module = "database.py"
    /\ last' = [NoCall EXCEPT !.op = "load_subjects",
                   !.ret = [NoRet EXCEPT !.kind = "entries",
                                         !.entries = load_subjects_fn(subject_entries)],
                   !.tx = "commit", !.conn = "closed"]
    /\ schema' = TRUE
    /\ UNCHANGED <<module, subject_slots, goals, subject_entries, subjects, snapshot_saved>>

\* save_subjects_snapshot: the global is assigned, then the text is saved.
save_subjects_snapshot(arg) ==
    /\ module = "database.py"
    /\ LET n == _normalize_subject_payload(arg)
       IN  IF n.exc # "none"
           THEN /\ last' = [NoCall EXCEPT !.op = "save_subjects_snapshot",
                               !.arg = arg, !.exc = n.exc]
                /\ UNCHANGED <<schema, subject_entries, subjects, snapshot_saved>>
           ELSE LET r == save_subject_fn(subject_entries, SUBJECTS_KEY, json_dumps(n.dict))
                IN  /\ subjects' = n.dict
                    /\ subject_entries' = r.db
                    /\ schema' = TRUE
                    /\ snapshot_saved' = (snapshot_saved \/ r.exc = "none")
                    /\ last' = [NoCall EXCEPT !.op = "save_subjects_snapshot",
                                   !.arg = arg, !.exc = r.exc, !.tx = r.tx,
                                   !.conn = r.conn]
    /\ UNCHANGED <<module, subject_slots, goals>>

load_subjects_snapshot ==
    /\ module = "database.py"
    /\ LET r == load_subjects_snapshot_fn(subject_entries)
       IN  /\ subjects' = r.subjects
           /\ last' = [NoCall EXCEPT !.op = "load_subjects_snapshot", !.exc = r.exc,
                          !.ret = [NoRet EXCEPT !.kind = "subjects", !.subjects = r.ret],
                          !.tx = "commit", !.conn = "closed"]
    /\ schema' = TRUE
    /\ UNCHANGED <<module, subject_slots, goals, subject_entries, snapshot_saved>>

-----------------------------------------------------------------------------

Init ==
    /\ module \in {"Database.py", "database.py"}
    /\ schema = FALSE
    /\ subject_slots = {}
    /\ goals = {}
    /\ subject_entries = {}
    /\ subjects = {}
    /\ last = NoCall
    /\ snapshot_saved = FALSE

NextSlots ==
    \/ Slots_init_db
    \/ get_subjects
    \/ \E items \in ListInputs : set_subjects(ListArg(items))
    \/ set_subjects(OtherArg)
    \/ get_goal
    \/ \E arg \in GoalArgs : set_goal(arg)

NextKV ==
    \/ KV_init_db
    \/ \E items \in ListInputs : save_subjects_snapshot(ListArg(items))
    \/ save_subjects_snapshot(OtherArg)
    \/ load_subjects_snapshot
    \/ \E arg \in EntryInputs : save_subject(arg)
    \/ \E pairs \in BulkInputs : save_subjects(BulkArg(pairs))
    \/ save_subjects(OtherArg)
    \/ load_subjects

Next == NextSlots \/ NextKV

\* a process with either module loaded
Spec == Init /\ [][Next]_vars

\* a process serving src/Database.py
InitSlots == Init /\ module = "Database.py"

SpecSlots == InitSlots /\ [][NextSlots]_vars

\* a process using src/database.py
InitKV == Init /\ module = "database.py"

SpecKV == InitKV /\ [][NextKV]_vars

-----------------------------------------------------------------------------
(* The claims *)

SnapshotWrites == {"set_subjects", "save_subjects_snapshot"}

SnapshotReads == {"get_subjects", "load_subjects_snapshot"}

\* a snapshot: SLOT_COUNT elements, each null or an object
ValidSnapshot(items) ==
    /\ Len(items) = SLOT_COUNT
    /\ \A i \in 1..Len(items) : items[i] = None \/ IsDict(items[i])

\* the last call was a snapshot write of a list, and it returned
WroteSnapshot ==
    last.op \in SnapshotWrites /\ last.arg.kind = "list" /\ last.exc = "none"

\* items with every field trimmed and every missing field empty
TrimmedSnapshot(items) ==
    [i \in 1..Len(items) |->
        IF items[i] = None THEN None
        ELSE Object(3, strip(Get(items[i], "subject")),
                    strip(Get(items[i], "current")), strip(Get(items[i], "target")))]

\* C1: in both modules, a successful write of a valid snapshot s followed at
\* once by a read returns s with every field trimmed and every missing field
\* turned into the empty string.
C1_RoundTripTrimmed ==
    [][(WroteSnapshot /\ ValidSnapshot(last.arg.items) /\ last'.op \in SnapshotReads)
          => last'.ret.subjects = TrimmedSnapshot(last.arg.items)]_vars

\* C2: the snapshot write of a list whose length is not SLOT_COUNT, or that
\* holds a non-null element that is no object, fails with ValueError or
\* TypeError.
C2_ShapeErrorOnBadInput ==
    (last.op \in SnapshotWrites /\ last.arg.kind = "list"
        /\ ~ValidSnapshot(last.arg.items))
        => last.exc \in {"ValueError", "TypeError"}

\* C3: after a successful write of a snapshot s, the read that follows returns
\* SLOT_COUNT entries, the i-th null exactly when s[i] was null (an empty
\* object {} is read back as an object).
C3_OccupancyPreserved ==
    [][(WroteSnapshot /\ ValidSnapshot(last.arg.items) /\ last'.op \in SnapshotReads)
          => /\ Len(last'.ret.subjects) = SLOT_COUNT
             /\ \A i \in 1..SLOT_COUNT :
                    (last'.ret.subjects[i] = None) <=> (last.arg.items[i] = None)]_vars

\* the mapping decoded from the value stored under SUBJECTS_KEY
DecodedStored ==
    IF \E r \in subject_entries : r.name = SUBJECTS_KEY
    THEN LET l == json_loads((CHOOSE r \in subject_entries : r.name = SUBJECTS_KEY).value)
         IN  IF l.exc = "none" /\ l.isdict THEN l.dict ELSE {}
    ELSE {}

\* C4: once a save_subjects_snapshot has returned, the global `subjects`
\* equals the mapping decoded from the value stored under "subjects", whatever
\* calls of the library follow.
C4_MirrorEqualsStored == snapshot_saved => subjects = DecodedStored

\* what GET returns for a written element: null for null, the three fields
\* (empty when missing) for an object
AsWritten(item, got) ==
    IF item = None THEN got = None
    ELSE IsDict(item) =>
            got = Object(3, Get(item, "subject"), Get(item, "current"),
                         Get(item, "target"))

\* C5: POST /api/subjects with a body that is no array answers 400 with an
\* error and leaves the rows; with any SLOT_COUNT-element array it answers 200
\* {"status": "ok"} and the next GET returns what was written; every failure
\* of the write is answered 400 with an error.
C5_HttpSubjects ==
    [][/\ (last'.op = "set_subjects" /\ last'.arg.kind = "other")
            => /\ last'.status = 400
               /\ last'.ret.kind = "error"
               /\ subject_slots' = subject_slots
       /\ (last'.op = "set_subjects" /\ last'.arg.kind = "list"
              /\ Len(last'.arg.items) = SLOT_COUNT)
            => (last'.status = 200 /\ last'.ret.kind = "ok")
       /\ (last'.op = "set_subjects" /\ last'.exc # "none")
            => (last'.status = 400 /\ last'.ret.kind = "error")
       /\ (last.op = "set_subjects" /\ last.status = 200 /\ last'.op = "get_subjects")
            => \A i \in 1..SLOT_COUNT :
                   AsWritten(last.arg.items[i], last'.ret.subjects[i])]_vars

\* the slots of a snapshot that hold an element
OccupiedSlots(items) == {i - 1 : i \in {j \in 1..Len(items) : items[j] # None}}

\* C6: a snapshot write of Database.py or a bulk save_subjects that fails
\* leaves the committed rows as they were; a snapshot write that succeeds
\* leaves exactly one row per occupied slot of the new snapshot, each made
\* from it.
C6_NoHalfAppliedWrite ==
    [][/\ (last'.op = "set_subjects" /\ last'.arg.kind = "list" /\ last'.exc # "none")
            => subject_slots' = subject_slots
       /\ (last'.op = "set_subjects" /\ last'.arg.kind = "list" /\ last'.exc = "none"
              /\ ValidSnapshot(last'.arg.items))
            => /\ {r.slot : r \in subject_slots'} = OccupiedSlots(last'.arg.items)
               /\ \A r \in subject_slots' : r = Row(r.slot, last'.arg.items[r.slot + 1])
       /\ (last'.op = "save_subjects" /\ last'.exc # "none")
            => subject_entries' = subject_entries]_vars

\* C6, the part that holds: a failed write commits nothing, and a successful
\* snapshot write leaves exactly the rows of the elements it inserted.
C6_RollbackOnFailure ==
    [][/\ (last'.op \in {"set_subjects", "set_goal"} /\ last'.exc # "none")
            => (subject_slots' = subject_slots /\ goals' = goals)
       /\ (last'.op \in {"save_subjects", "save_subject"} /\ last'.exc # "none")
            => subject_entries' = subject_entries
       /\ (last'.op = "set_subjects" /\ last'.arg.kind = "list" /\ last'.exc = "none")
            => subject_slots' =
                  {Row(i - 1, last'.arg.items[i]) :
                      i \in {j \in 1..SLOT_COUNT : Truthy(last'.arg.items[j])}}]_vars

\* the text stored under SUBJECTS_KEY (NoText without a row)
StoredText ==
    IF \E r \in subject_entries : r.name = SUBJECTS_KEY
    THEN (CHOOSE r \in subject_entries : r.name = SUBJECTS_KEY).value
    ELSE NoText

\* what load_subjects_snapshot is to return for the stored text
ExpectedLoad(text) ==
    [i \in 1..SLOT_COUNT |->
        IF /\ text.kind = "object"
           /\ \E j \in 1..Len(text.pairs) :
                 /\ text.pairs[j].k = StrOf(i - 1)
                 /\ IsDict(text.pairs[j].v)
                 /\ \A m \in (j + 1)..Len(text.pairs) : text.pairs[m].k # StrOf(i - 1)
        THEN LET j == CHOOSE j \in 1..Len(text.pairs) :
                          /\ text.pairs[j].k = StrOf(i - 1)
                          /\ \A m \in (j + 1)..Len(text.pairs) :
                                 text.pairs[m].k # StrOf(i - 1)
             IN  TrimmedSnapshot(<<text.pairs[j].v>>)[1]
        ELSE None]

\* C7: load_subjects_snapshot never raises because of the stored text: for a
\* text that is no serialized mapping it returns SLOT_COUNT nulls, and for a
\* mapping it returns the object entries at their index and drops the others.
C7_LoadNeverRaises ==
    last.op = "load_subjects_snapshot"
        => /\ last.exc = "none"
           /\ last.ret.subjects = ExpectedLoad(StoredText)

\* C7, the part that holds: when load_subjects_snapshot returns, it returns
\* what the stored text asks for.
C7_LoadWhenDecoded ==
    (last.op = "load_subjects_snapshot" /\ last.exc = "none")
        => last.ret.subjects = ExpectedLoad(StoredText)

\* a save_goal of a string that returned
SavedGoal(l) == l.op = "set_goal" /\ l.arg.kind = "goal" /\ l.exc = "none"

\* C8: load_goal returns "" while no save_goal has succeeded and the text of
\* the most recent successful save_goal afterwards (any string is accepted);
\* there is at most one goal row, with id 1; save_goal and load_goal leave the
\* subject slots as they were.
C8_GoalLastWriteWins ==
    /\ load_goal(goals) = ""
    /\ [][/\ (last'.op = "set_goal" /\ last'.arg.kind = "goal")
               => (last'.exc = "none" /\ load_goal(goals') = last'.arg.text)
          /\ ~SavedGoal(last') => load_goal(goals') = load_goal(goals)
          /\ last'.op = "get_goal" => last'.ret.text = load_goal(goals)
          /\ Cardinality(goals') <= 1
          /\ \A r \in goals' : r.id = 1
          /\ last'.op \in {"set_goal", "get_goal"} => subject_slots' = subject_slots]_vars

\* C8 witness: a goal was saved over an earlier one while slots were occupied,
\* and read back.
C8_Witness ==
    /\ last.op = "get_goal"
    /\ last.ret.text = "y"
    /\ goals = {[id |-> 1, goal |-> "y"]}
    /\ subject_slots # {}

\* C9: save_subject with an empty name raises ValueError and leaves the
\* entries; with a non-empty name and a string value it returns, the entries
\* then hold name -> value once and every other entry as before, and the
\* load_subjects that follows returns that entry.
C9_SaveSubject ==
    [][/\ (last'.op = "save_subject" /\ last'.arg.text = "")
            => (last'.exc = "ValueError" /\ subject_entries' = subject_entries)
       /\ (last'.op = "save_subject" /\ last'.arg.text # ""
              /\ last'.arg.value.kind # "null")
            => /\ last'.exc = "none"
               /\ {r \in load_subjects_fn(subject_entries') : r.name = last'.arg.text}
                     = {[name |-> last'.arg.text, value |-> last'.arg.value]}
               /\ {r \in subject_entries' : r.name # last'.arg.text}
                     = {r \in subject_entries : r.name # last'.arg.text}
       /\ (last.op = "save_subject" /\ last.exc = "none" /\ last'.op = "load_subjects")
            => [name |-> last.arg.text, value |-> last.arg.value] \in last'.ret.entries]_vars

\* C9 witness: an entry was saved beside another one and load_subjects
\* returned both.
C9_Witness ==
    /\ last.op = "load_subjects"
    /\ [name |-> "k", value |-> ArrayText] \in last.ret.entries
    /\ \E r \in last.ret.entries : r.name = SUBJECTS_KEY

\* C10: after every call no connection the call opened is still open, a call
\* that returned has committed and a call whose statements failed has rolled
\* back.
C10_ConnectionReleased ==
    /\ last.conn # "open"
    /\ (last.conn # "none" /\ last.exc = "none") => last.tx = "commit"
    /\ last.tx = "rollback" => last.exc # "none"

\* C10, the part that holds in both modules: commit after a return, rollback
\* after a failed statement.
C10_CommitOrRollback ==
    /\ (last.conn # "none" /\ last.exc = "none") => last.tx = "commit"
    /\ last.tx = "rollback" => last.exc # "none"

====
